---- MODULE Spec2Model ----
(***************************************************************************)
(* The ledger of AccountsAPI.ts: users, per-currency accounts, the         *)
(* transaction log, the fee pool of ExchangeAndFees.ts and the job queue   *)
(* through which createUser, deleteUser, deposit, withdraw, transfer and   *)
(* exchange run.  Every `await this.db...` of a job is a suspension point: *)
(* one step of the model is one statement executed by SQLite followed by   *)
(* the job's code up to its next await.                                    *)
(***************************************************************************)
EXTENDS Integers, Sequences, FiniteSets, TLC

(***************************************************************************)
(* JavaScript numbers.  Amounts, balances, fees and rates are kept as      *)
(* exact fractions <<n, d>> in lowest terms with d > 0, so that            *)
(* amount * serviceFee and amount / rate are computed, not assumed whole.  *)
(***************************************************************************)
Abs(x) == IF x < 0 THEN -x ELSE x

RECURSIVE GCD(_, _)
GCD(a, b) == IF b = 0 THEN a ELSE GCD(b, a % b)

Num(n, d) == LET g == GCD(Abs(n), d) IN <<n \div g, d \div g>>

Plus(x, y) == Num(x[1] * y[2] + y[1] * x[2], x[2] * y[2])

Minus(x, y) == Num(x[1] * y[2] - y[1] * x[2], x[2] * y[2])

Times(x, y) == Num(x[1] * y[1], x[2] * y[2])

\* x / y for y > 0 (every divisor of the program is an exchange rate)
Over(x, y) == Num(x[1] * y[2], x[2] * y[1])

Greater(x, y) == x[1] * y[2] > y[1] * x[2]

AtLeast(x, y) == x[1] * y[2] >= y[1] * x[2]

Zero == Num(0, 1)

(***************************************************************************)
(* ExchangeAndFees.ts                                                      *)
(***************************************************************************)
Currencies == {"PLN", "EUR", "USD"}

\* the guards: z.enum(['PLN','EUR','USD']), z.number().positive(),
\* z.string().uuid(), z.string().min(1)
UUIDs == {"u1", "u2", "u3"}

ZCurrency(c) == c \in Currencies

\* a guard that only excludes 0
ZNumber_NonZero(x) == x # Zero

ZNumber(x) == Greater(x, Zero)

ZUserID(u) == u \in UUIDs

ZUsername(s) == s # ""

\* SERVICE_FEE and EXCHANGE_<currency> of the environment (README: 0.05, 0.30)
serviceFee == Num(1, 20)

exchangeRates == [EUR |-> Num(1, 4), USD |-> Num(3, 10)]

toExchangedAmount(amount, from, to) ==
    IF from = to THEN amount
    ELSE IF to = "PLN" THEN Over(amount, exchangeRates[from])
    ELSE IF from = "PLN" THEN Times(amount, exchangeRates[to])
    ELSE Times(Over(amount, exchangeRates[from]), exchangeRates[to])

collectServiceFee(total, fee, currency) ==
    Plus(total, toExchangedAmount(fee, currency, "PLN"))

(***************************************************************************)
(* The constructor of ExchangeAndFees.  The environment it reads is        *)
(* process.env (what the caller has set) and the .ENV file that            *)
(* process.loadEnvFile() loads; a variable is <<>> when it is absent,      *)
(* <<text>> when its text is no number, and a number otherwise.            *)
(***************************************************************************)
EnvKeys == {"SERVICE_FEE", "EXCHANGE_EUR", "EXCHANGE_USD"}

absent == <<>>

NaN == <<"NaN">>

\* parseFloat(process.env[...]): NaN for undefined and for text that is no number
parseFloat(text) == IF Len(text) = 2 THEN text ELSE NaN

\* ZNumber.safeParse(x).error: z.number().positive() rejects NaN and x <= 0
ZNumberError(x) == x = NaN \/ ~Greater(x, Zero)

\* process.loadEnvFile(): the file's variables, except those already set
loadEnvFile(environment) ==
    [k \in EnvKeys |-> IF environment.process[k] # absent THEN environment.process[k]
                       ELSE environment.file[k]]

\* the field initializers: serviceFee = 0, exchangeRates = { EUR: -1, USD: -1 }
FieldInitializers ==
    [threw |-> FALSE, serviceFee |-> Zero,
     exchangeRates |-> [EUR |-> Num(-1, 1), USD |-> Num(-1, 1)],
     totalCollectedFeesPLN |-> Zero]

Throws == [FieldInitializers EXCEPT !.threw = TRUE]

\* new ExchangeAndFees()
ExchangeAndFees(environment) ==
    IF environment.process["SERVICE_FEE"] # absent THEN FieldInitializers
    ELSE LET processEnv == loadEnvFile(environment)
             EUR == parseFloat(processEnv["EXCHANGE_EUR"])
             USD == parseFloat(processEnv["EXCHANGE_USD"])
         IN IF ZNumberError(EUR) \/ ZNumberError(USD) THEN Throws
            ELSE [FieldInitializers EXCEPT
                     !.serviceFee = parseFloat(processEnv["SERVICE_FEE"]),
                     !.exchangeRates = [EUR |-> EUR, USD |-> USD]]

\* the .ENV file of the repository, nothing set by the caller
DotEnv ==
    [process |-> [k \in EnvKeys |-> absent],
     file |-> [k \in EnvKeys |->
                  CASE k = "SERVICE_FEE" -> serviceFee
                    [] k = "EXCHANGE_EUR" -> exchangeRates.EUR
                    [] k = "EXCHANGE_USD" -> exchangeRates.USD]]

(***************************************************************************)
(* Database.ts: one SQLite connection.  A statement runs inside the        *)
(* explicit transaction when one is open on the connection and commits at  *)
(* once otherwise.  tx is <<>>, or <<the tables as they were at BEGIN>>.   *)
(* The transactions table holds the columns the INSERT statements of       *)
(* AccountsAPI.ts name.                                                    *)
(***************************************************************************)
undefined == [id |-> 0]

NULL == "NULL"

Tables(db) == [users |-> db.users, accounts |-> db.accounts,
               transactions |-> db.transactions, sequence |-> db.sequence]

\* the schema of Database.open: no rows yet
EmptyDatabase == [users |-> {}, accounts |-> {}, transactions |-> <<>>,
                  sequence |-> 0, tx |-> <<>>]

\* sqlite3 rejects BEGIN inside a transaction, and COMMIT and ROLLBACK outside one
StatementFails(db, sql) ==
    \/ sql = "BEGIN" /\ db.tx # <<>>
    \/ sql \in {"COMMIT", "ROLLBACK"} /\ db.tx = <<>>

Begin(db) == [db EXCEPT !.tx = <<Tables(db)>>]

Commit(db) == [db EXCEPT !.tx = <<>>]

Rollback(db) ==
    [users |-> db.tx[1].users, accounts |-> db.tx[1].accounts,
     transactions |-> db.tx[1].transactions, sequence |-> db.tx[1].sequence, tx |-> <<>>]

\* INSERT INTO users without the trigger: the user row alone
InsertUser_WithoutTrigger(db, id, name) ==
    [db EXCEPT !.users = @ \cup {[id |-> id, name |-> name]}]

\* INSERT INTO users, with the trigger create_accounts_after_user_insert
InsertUser(db, id, name) ==
    [db EXCEPT
        !.users = @ \cup {[id |-> id, name |-> name]},
        !.accounts = @ \cup
            {[id |-> db.sequence + 1, user_id |-> id, currency |-> "PLN", balance |-> Zero],
             [id |-> db.sequence + 2, user_id |-> id, currency |-> "USD", balance |-> Zero],
             [id |-> db.sequence + 3, user_id |-> id, currency |-> "EUR", balance |-> Zero]},
        !.sequence = @ + 3]

\* DELETE FROM users, were transactions.user_id to cascade as accounts.user_id does
DeleteUser_CascadesToLog(db, id) ==
    [db EXCEPT
        !.users = {u \in @ : u.id # id},
        !.accounts = {a \in @ : a.user_id # id},
        !.transactions = SelectSeq(@, LAMBDA row : row.user_id # id)]

\* DELETE FROM users WHERE id = ?, with accounts.user_id ON DELETE CASCADE
DeleteUser(db, id) ==
    [db EXCEPT
        !.users = {u \in @ : u.id # id},
        !.accounts = {a \in @ : a.user_id # id}]

\* SELECT * FROM accounts WHERE user_id = ? AND currency = ?  (first row, or undefined)
SelectAccount(db, userID, currency) ==
    LET rows == {a \in db.accounts : a.user_id = userID /\ a.currency = currency}
    IN IF rows = {} THEN undefined
       ELSE CHOOSE a \in rows : \A b \in rows : a.id <= b.id

\* getBalance(userID, currency): SELECT balance FROM accounts WHERE user_id = ? AND
\* currency = ?, then account.balance (of an account that exists)
getBalance(db, userID, currency) == SelectAccount(db, userID, currency).balance

\* UPDATE accounts SET balance = $balance WHERE user_id = $user_id AND currency = $currency
UpdateBalance(db, userID, currency, balance) ==
    [db EXCEPT !.accounts =
        {IF a.user_id = userID /\ a.currency = currency
         THEN [a EXCEPT !.balance = balance] ELSE a : a \in @}]

\* INSERT INTO transactions (...)
InsertTransaction(db, row) == [db EXCEPT !.transactions = Append(@, row)]

(***************************************************************************)
(* AccountsAPI.ts.  A world w is the state the methods act on:             *)
(*   db                     the connection and its tables                  *)
(*   totalCollectedFeesPLN  the fee pool of eaf                            *)
(*   queue                  the Queue: waiting jobs and the running count  *)
(*   ops                    one frame per call: its arguments, the await   *)
(*                          it is suspended at (pc), the locals account,   *)
(*                          account2 and inTransaction, and its promise    *)
(* A frame also records, for the properties below, whether any other call  *)
(* took a step while it ran (undisturbed) and, as long as none did, the    *)
(* tables and the fee pool at the call (before) and at the frame's last    *)
(* step (after).                                                           *)
(***************************************************************************)
Ledger(w) == [accounts |-> w.db.accounts, transactions |-> w.db.transactions,
              users |-> w.db.users, fees |-> w.totalCollectedFeesPLN]

Frame(req, w) ==
    [req |-> req, pc |-> "queued", account |-> undefined, account2 |-> undefined,
     inTransaction |-> FALSE, promise |-> "pending", error |-> "none", value |-> <<>>,
     before |-> <<Ledger(w)>>, after |-> <<>>, undisturbed |-> TRUE]

Fee(amount) == Times(amount, serviceFee)

TotalWithdraw(amount) == Plus(amount, Fee(amount))

\* the comparison of the funds check the wrong way round
InsufficientBalance_Reversed(totalWithdraw, balance) == Greater(balance, totalWithdraw)

InsufficientBalance(totalWithdraw, balance) == Greater(totalWithdraw, balance)

\* the rejection, were it to go through a catch that always issues ROLLBACK
Reject_WithRollback(w, i, error) ==
    [w EXCEPT !.ops[i].promise = "rejected", !.ops[i].error = error, !.ops[i].pc = "ROLLBACK"]

\* reject(error) with no ROLLBACK issued: the job is over
Reject(w, i, error) ==
    [w EXCEPT !.ops[i].promise = "rejected", !.ops[i].error = error, !.ops[i].pc = "done"]

\* a catch that swallows the error: the job ends and nobody is told
Catch_Swallow(w, i, error) == [w EXCEPT !.ops[i].pc = "done"]

\* catch (error) { if (inTransaction) this.db.run('ROLLBACK'); reject(error) }
\* the ROLLBACK is issued and not awaited: the promise is rejected at once
Catch(w, i, error) ==
    IF w.ops[i].inTransaction
    THEN [w EXCEPT !.ops[i].promise = "rejected", !.ops[i].error = error,
                   !.ops[i].pc = "ROLLBACK"]
    ELSE Reject(w, i, error)

\* the detached ROLLBACK runs: it undoes whatever transaction is open on the
\* connection, or fails (an unhandled rejection) when none is
DetachedRollback(w, i) ==
    [w EXCEPT !.db = IF StatementFails(@, "ROLLBACK") THEN @ ELSE Rollback(@),
              !.ops[i].pc = "done"]

Resolve(w, i, value) ==
    [w EXCEPT !.ops[i].promise = "resolved", !.ops[i].value = value, !.ops[i].pc = "done"]

Goto(w, i, pc) == [w EXCEPT !.ops[i].pc = pc]

\* createUser(username): AccountsAPI.ts 102-123; req.userID is what randomUUID() returns
createUser(w, i) ==
    LET op == w.ops[i]
    IN CASE op.pc = "queued" ->
                IF ~ZUsername(op.req.username) THEN Reject(w, i, "validation")
                ELSE Goto(w, i, "INSERT_USER")
         [] op.pc = "INSERT_USER" ->
                Resolve([w EXCEPT !.db = InsertUser(@, op.req.userID, op.req.username)],
                        i, <<op.req.userID>>)
         [] OTHER -> w

\* getUser(userID): AccountsAPI.ts 129-141; SELECT * FROM users WHERE id = ?
getUser(database, userID) ==
    IF \E u \in database.users : u.id = userID
    THEN CHOOSE u \in database.users : u.id = userID
    ELSE undefined

\* deleteUser, were it to reject an id that matches no user
deleteUser_RejectsUnknown(w, i) ==
    LET op == w.ops[i]
    IN CASE op.pc = "queued" ->
                IF ~ZUserID(op.req.userID) THEN Reject(w, i, "validation")
                ELSE Goto(w, i, "DELETE_USER")
         [] op.pc = "DELETE_USER" ->
                IF getUser(w.db, op.req.userID) = undefined THEN Reject(w, i, "not-found")
                ELSE Resolve([w EXCEPT !.db = DeleteUser(@, op.req.userID)], i, <<>>)
         [] OTHER -> w

\* deleteUser(userID): AccountsAPI.ts 146-167
deleteUser(w, i) ==
    LET op == w.ops[i]
    IN CASE op.pc = "queued" ->
                IF ~ZUserID(op.req.userID) THEN Reject(w, i, "validation")
                ELSE Goto(w, i, "DELETE_USER")
         [] op.pc = "DELETE_USER" ->
                Resolve([w EXCEPT !.db = DeleteUser(@, op.req.userID)], i, <<>>)
         [] OTHER -> w

depositFinalBalance(startingBalance, amount) ==
    Minus(Plus(startingBalance, amount), Fee(amount))

\* deposit(userID, amount, currency): AccountsAPI.ts 174-225
deposit(w, i) ==
    LET op == w.ops[i]
        r  == op.req
        totalServiceFee == Fee(r.amount)
    IN CASE op.pc = "queued" ->
                IF ~(ZUserID(r.userID) /\ ZNumber(r.amount) /\ ZCurrency(r.currency))
                THEN Catch(w, i, "validation")
                ELSE Goto(w, i, "SELECT")
         [] op.pc = "SELECT" ->
                LET account == SelectAccount(w.db, r.userID, r.currency)
                IN IF account.id = undefined.id THEN Reject(w, i, "not-found")
                   ELSE [w EXCEPT !.ops[i].account = account,
                                  !.ops[i].inTransaction = TRUE,
                                  !.ops[i].pc = "BEGIN"]
         [] op.pc = "BEGIN" ->
                IF StatementFails(w.db, "BEGIN") THEN Catch(w, i, "storage")
                ELSE [w EXCEPT !.db = Begin(@), !.ops[i].pc = "UPDATE"]
         [] op.pc = "UPDATE" ->
                [w EXCEPT !.db = UpdateBalance(@, r.userID, r.currency,
                                     depositFinalBalance(op.account.balance, r.amount)),
                          !.ops[i].pc = "INSERT"]
         [] op.pc = "INSERT" ->
                [w EXCEPT !.db = InsertTransaction(@,
                              [user_id |-> r.userID, target_user_id |-> NULL,
                               issuer_account_id |-> op.account.id, recipient_account_id |-> 0,
                               transaction_type |-> "deposit", amount |-> r.amount,
                               exchanged_to |-> <<>>, currency |-> r.currency,
                               target_currency |-> NULL, fee_paid |-> totalServiceFee,
                               op |-> i]),
                          !.ops[i].pc = "COMMIT"]
         [] op.pc = "COMMIT" ->
                IF StatementFails(w.db, "COMMIT") THEN Catch(w, i, "storage")
                ELSE Resolve([w EXCEPT !.db = Commit(@),
                                       !.totalCollectedFeesPLN =
                                           collectServiceFee(@, totalServiceFee, r.currency)],
                             i, <<>>)
         [] op.pc = "ROLLBACK" -> DetachedRollback(w, i)
         [] OTHER -> w

\* withdraw(userID, amount, currency): AccountsAPI.ts 233-282
withdraw(w, i) ==
    LET op == w.ops[i]
        r  == op.req
        fee == Fee(r.amount)
        totalWithdraw == TotalWithdraw(r.amount)
    IN CASE op.pc = "queued" ->
                IF ~(ZUserID(r.userID) /\ ZNumber(r.amount) /\ ZCurrency(r.currency))
                THEN Catch(w, i, "validation")
                ELSE Goto(w, i, "SELECT")
         [] op.pc = "SELECT" ->
                LET account == SelectAccount(w.db, r.userID, r.currency)
                IN IF account.id = undefined.id THEN Reject(w, i, "not-found")
                   ELSE IF InsufficientBalance(totalWithdraw, account.balance)
                   THEN Reject(w, i, "insufficient")
                   ELSE [w EXCEPT !.ops[i].account = account, !.ops[i].pc = "BEGIN"]
         [] op.pc = "BEGIN" ->
                IF StatementFails(w.db, "BEGIN") THEN Catch(w, i, "storage")
                ELSE [w EXCEPT !.db = Begin(@), !.ops[i].inTransaction = TRUE,
                               !.ops[i].pc = "UPDATE"]
         [] op.pc = "UPDATE" ->
                [w EXCEPT !.db = UpdateBalance(@, r.userID, r.currency,
                                     Minus(op.account.balance, totalWithdraw)),
                          !.ops[i].pc = "INSERT"]
         [] op.pc = "INSERT" ->
                [w EXCEPT !.db = InsertTransaction(@,
                              [user_id |-> r.userID, target_user_id |-> NULL,
                               issuer_account_id |-> op.account.id, recipient_account_id |-> 0,
                               transaction_type |-> "withdrawal", amount |-> r.amount,
                               exchanged_to |-> <<>>, currency |-> r.currency,
                               target_currency |-> NULL, fee_paid |-> fee,
                               op |-> i]),
                          !.ops[i].pc = "COMMIT"]
         [] op.pc = "COMMIT" ->
                IF StatementFails(w.db, "COMMIT") THEN Catch(w, i, "storage")
                ELSE Resolve([w EXCEPT !.db = Commit(@),
                                       !.totalCollectedFeesPLN =
                                           collectServiceFee(@, fee, r.currency)],
                             i, r.amount)
         [] op.pc = "ROLLBACK" -> DetachedRollback(w, i)
         [] OTHER -> w

\* transfer(issuerUserID, recipientUserID, amount, currency): AccountsAPI.ts 292-356
transfer(w, i) ==
    LET op == w.ops[i]
        r  == op.req
        fee == Fee(r.amount)
        totalWithdraw == TotalWithdraw(r.amount)
    IN CASE op.pc = "queued" ->
                IF ~(ZUserID(r.userID) /\ ZUserID(r.recipientUserID)
                     /\ ZNumber(r.amount) /\ ZCurrency(r.currency))
                THEN Catch(w, i, "validation")
                ELSE Goto(w, i, "SELECT")
         [] op.pc = "SELECT" ->
                LET issuerAccount == SelectAccount(w.db, r.userID, r.currency)
                IN IF issuerAccount.id = undefined.id THEN Reject(w, i, "not-found")
                   ELSE [w EXCEPT !.ops[i].account = issuerAccount, !.ops[i].pc = "SELECT2"]
         [] op.pc = "SELECT2" ->
                LET recipientAccount == SelectAccount(w.db, r.recipientUserID, r.currency)
                IN IF recipientAccount.id = undefined.id THEN Reject(w, i, "not-found")
                   ELSE IF InsufficientBalance(totalWithdraw, op.account.balance)
                   THEN Reject(w, i, "insufficient")
                   ELSE [w EXCEPT !.ops[i].account2 = recipientAccount, !.ops[i].pc = "BEGIN"]
         [] op.pc = "BEGIN" ->
                IF StatementFails(w.db, "BEGIN") THEN Catch(w, i, "storage")
                ELSE [w EXCEPT !.db = Begin(@), !.ops[i].inTransaction = TRUE,
                               !.ops[i].pc = "UPDATE"]
         [] op.pc = "UPDATE" ->
                [w EXCEPT !.db = UpdateBalance(@, r.userID, r.currency,
                                     Minus(op.account.balance, totalWithdraw)),
                          !.ops[i].pc = "UPDATE2"]
         [] op.pc = "UPDATE2" ->
                [w EXCEPT !.db = UpdateBalance(@, r.recipientUserID, r.currency,
                                     Plus(op.account2.balance, r.amount)),
                          !.ops[i].pc = "INSERT"]
         [] op.pc = "INSERT" ->
                [w EXCEPT !.db = InsertTransaction(@,
                              [user_id |-> r.userID, target_user_id |-> r.recipientUserID,
                               issuer_account_id |-> op.account.id,
                               recipient_account_id |-> op.account2.id,
                               transaction_type |-> "transfer", amount |-> r.amount,
                               exchanged_to |-> <<>>, currency |-> r.currency,
                               target_currency |-> NULL, fee_paid |-> fee,
                               op |-> i]),
                          !.ops[i].pc = "COMMIT"]
         [] op.pc = "COMMIT" ->
                IF StatementFails(w.db, "COMMIT") THEN Catch(w, i, "storage")
                ELSE Resolve([w EXCEPT !.db = Commit(@),
                                       !.totalCollectedFeesPLN =
                                           collectServiceFee(@, fee, r.currency)],
                             i, r.amount)
         [] op.pc = "ROLLBACK" -> DetachedRollback(w, i)
         [] OTHER -> w

\* exchange(userID, amount, fromCurrency, toCurrency): AccountsAPI.ts 361-427
\* req.currency is fromCurrency
exchange(w, i) ==
    LET op == w.ops[i]
        r  == op.req
        fee == Fee(r.amount)
        totalWithdraw == TotalWithdraw(r.amount)
        exchanged == toExchangedAmount(r.amount, r.currency, r.toCurrency)
    IN CASE op.pc = "queued" ->
                IF ~(ZUserID(r.userID) /\ ZNumber(r.amount)
                     /\ ZCurrency(r.currency) /\ ZCurrency(r.toCurrency))
                THEN Catch(w, i, "validation")
                ELSE Goto(w, i, "SELECT")
         [] op.pc = "SELECT" ->
                LET sourceAccount == SelectAccount(w.db, r.userID, r.currency)
                IN IF sourceAccount.id = undefined.id THEN Reject(w, i, "not-found")
                   ELSE [w EXCEPT !.ops[i].account = sourceAccount, !.ops[i].pc = "SELECT2"]
         [] op.pc = "SELECT2" ->
                LET destinationAccount == SelectAccount(w.db, r.userID, r.toCurrency)
                IN IF destinationAccount.id = undefined.id THEN Reject(w, i, "not-found")
                   ELSE IF InsufficientBalance(totalWithdraw, op.account.balance)
                   THEN Reject(w, i, "insufficient")
                   ELSE [w EXCEPT !.ops[i].account2 = destinationAccount,
                                  !.ops[i].pc = "BEGIN"]
         [] op.pc = "BEGIN" ->
                IF StatementFails(w.db, "BEGIN") THEN Catch(w, i, "storage")
                ELSE [w EXCEPT !.db = Begin(@), !.ops[i].inTransaction = TRUE,
                               !.ops[i].pc = "UPDATE"]
         [] op.pc = "UPDATE" ->
                [w EXCEPT !.db = UpdateBalance(@, r.userID, r.currency,
                                     Minus(op.account.balance, totalWithdraw)),
                          !.ops[i].pc = "UPDATE2"]
         [] op.pc = "UPDATE2" ->
                [w EXCEPT !.db = UpdateBalance(@, r.userID, r.toCurrency,
                                     Plus(op.account2.balance, exchanged)),
                          !.ops[i].pc = "INSERT"]
         [] op.pc = "INSERT" ->
                [w EXCEPT !.db = InsertTransaction(@,
                              [user_id |-> r.userID, target_user_id |-> NULL,
                               issuer_account_id |-> op.account.id,
                               recipient_account_id |-> op.account2.id,
                               transaction_type |-> "exchange", amount |-> r.amount,
                               exchanged_to |-> exchanged, currency |-> r.currency,
                               target_currency |-> r.toCurrency, fee_paid |-> fee,
                               op |-> i]),
                          !.ops[i].pc = "COMMIT"]
         [] op.pc = "COMMIT" ->
                IF StatementFails(w.db, "COMMIT") THEN Catch(w, i, "storage")
                ELSE Resolve([w EXCEPT !.db = Commit(@),
                                       !.totalCollectedFeesPLN =
                                           collectServiceFee(@, fee, r.currency)],
                             i, <<>>)
         [] op.pc = "ROLLBACK" -> DetachedRollback(w, i)
         [] OTHER -> w

Method(w, i) ==
    LET kind == w.ops[i].req.kind
    IN CASE kind = "createUser" -> createUser(w, i)
         [] kind = "deleteUser" -> deleteUser(w, i)
         [] kind = "deposit"    -> deposit(w, i)
         [] kind = "withdraw"   -> withdraw(w, i)
         [] kind = "transfer"   -> transfer(w, i)
         [] kind = "exchange"   -> exchange(w, i)

(***************************************************************************)
(* The queue of AccountsAPI.open: new Queue({ autostart: true }).  push    *)
(* appends the job and, autostart being set, starts jobs while the number  *)
(* of running ones is below `concurrency`.  No concurrency option is       *)
(* given, so the limit is the package's default, Infinity: the queue is    *)
(* never full.  A started job runs up to its first await at once.          *)
(***************************************************************************)
\* what the queue would do with { concurrency: 1 }
QueueIsFull_One(pending) == pending >= 1

QueueIsFull(pending) == FALSE

RECURSIVE Start(_)
Start(w) ==
    IF w.queue.jobs = <<>> \/ QueueIsFull(w.queue.pending) THEN w
    ELSE LET i  == Head(w.queue.jobs)
             w1 == [w EXCEPT !.queue = [jobs |-> Tail(@.jobs), pending |-> @.pending + 1]]
             w2 == Method(w1, i)
         IN Start(IF w2.ops[i].promise # "pending"
                  THEN [w2 EXCEPT !.queue.pending = @ - 1]
                  ELSE w2)

\* the job's promise has settled: the queue counts it out and starts the next
JobDone(w) == Start([w EXCEPT !.queue.pending = @ - 1])

\* bookkeeping of the frames: a frame that has taken its last step records the ledger
Observe(w) ==
    [w EXCEPT !.ops = [k \in DOMAIN @ |->
        IF @[k].pc = "done" /\ @[k].undisturbed /\ @[k].after = <<>>
        THEN [@[k] EXCEPT !.after = <<Ledger(w)>>] ELSE @[k]]]

\* bookkeeping of the frames: call i takes a step while the others are unfinished
Disturb(w, i) ==
    [w EXCEPT !.ops = [k \in DOMAIN @ |->
        IF k # i /\ @[k].pc # "done"
        THEN [@[k] EXCEPT !.undisturbed = FALSE, !.before = <<>>] ELSE @[k]]]

\* queue.push(job) of a public method
Push(w, req) ==
    LET i == Len(w.ops) + 1
    IN Observe(Start([w EXCEPT !.ops = Append(@, Frame(req, w)),
                               !.queue.jobs = Append(@, i)]))

\* the statement call i awaits completes and the job runs on to its next await
Advance(w, i) ==
    LET w0 == Disturb(w, i)
        w1 == Method(w0, i)
    IN Observe(IF w0.ops[i].promise = "pending" /\ w1.ops[i].promise # "pending"
               THEN JobDone(w1) ELSE w1)

CanAdvance(w, i) == w.ops[i].pc \notin {"queued", "done"}

(***************************************************************************)
(* The state machine                                                       *)
(***************************************************************************)
VARIABLES db, totalCollectedFeesPLN, queue, ops,
          reads,   \* the read queries made so far, each with what it returned
          env,     \* the environment the process was started in
          eaf,     \* what new ExchangeAndFees() gave, <<>> before it has run
          calc     \* a conversion: its arguments and the values it has returned so far

vars == <<db, totalCollectedFeesPLN, queue, ops, reads, env, eaf, calc>>

World == [db |-> db, totalCollectedFeesPLN |-> totalCollectedFeesPLN,
          queue |-> queue, ops |-> ops]

Becomes(w) ==
    /\ db' = w.db
    /\ totalCollectedFeesPLN' = w.totalCollectedFeesPLN
    /\ queue' = w.queue
    /\ ops' = w.ops
    /\ UNCHANGED <<reads, env, eaf, calc>>

\* at most this many calls are made in one behaviour
MaxOps == 3

\* the arguments the callers pass: the two users, an id of no user ("u3", until
\* createUser returns it), amounts chosen so that 19 + fee(19) = 21 - fee(21), and
\* one malformed value of each kind
Users == {"u1", "u2"}

DeleteUserArgs == {"u1", "u3", "not-a-uuid"}

DepositArgs ==
    {<<"u1", Num(21, 1), "PLN">>, <<"u2", Num(21, 1), "PLN">>, <<"u1", Num(21, 1), "USD">>,
     <<"u3", Num(21, 1), "PLN">>, <<"u1", Num(-21, 1), "PLN">>}

WithdrawArgs ==
    {<<"u1", Num(19, 1), "PLN">>, <<"u1", Num(21, 1), "PLN">>, <<"u2", Num(19, 1), "PLN">>,
     <<"u1", Num(19, 1), "GBP">>}

TransferArgs ==
    {<<"u1", "u2", Num(19, 1), "PLN">>, <<"u2", "u1", Num(19, 1), "PLN">>,
     <<"u1", "u1", Num(19, 1), "PLN">>, <<"u1", "u3", Num(19, 1), "PLN">>,
     <<"u1", "not-a-uuid", Num(19, 1), "PLN">>}

ExchangeArgs ==
    {<<"u1", Num(19, 1), "PLN", "USD">>, <<"u1", Num(19, 1), "PLN", "PLN">>,
     <<"u1", Num(19, 1), "USD", "PLN">>, <<"u1", Num(19, 1), "PLN", "GBP">>}

UsernameArgs == {"Tom Kowalski", ""}

Request(kind, userID, recipientUserID, amount, currency, toCurrency, username) ==
    [kind |-> kind, userID |-> userID, recipientUserID |-> recipientUserID,
     amount |-> amount, currency |-> currency, toCurrency |-> toCurrency,
     username |-> username]

\* AccountsAPI.open(), then the users the callers work with: await createUser(...) twice
InitWorld ==
    [db |-> InsertUser(InsertUser(EmptyDatabase, "u1", "Adam Kowalski"),
                       "u2", "Ewa Kowalska"),
     totalCollectedFeesPLN |-> Zero,
     queue |-> [jobs |-> <<>>, pending |-> 0],
     ops |-> <<>>]

Init ==
    /\ db = InitWorld.db
    /\ totalCollectedFeesPLN = InitWorld.totalCollectedFeesPLN
    /\ queue = InitWorld.queue
    /\ ops = InitWorld.ops
    /\ reads = <<>>
    /\ env = DotEnv
    /\ eaf = <<ExchangeAndFees(DotEnv)>>
    /\ calc = <<>>


\* a caller calls createUser; randomUUID() returns an id never seen before
CallCreateUser ==
    /\ Len(ops) < MaxOps
    /\ \E username \in UsernameArgs, id \in UUIDs \ Users :
          /\ \A k \in DOMAIN ops : ops[k].req.kind = "createUser" => ops[k].req.userID # id
          /\ Becomes(Push(World, Request("createUser", id, "-", Zero, "-", "-", username)))

CallDeleteUser ==
    /\ Len(ops) < MaxOps
    /\ \E userID \in DeleteUserArgs :
          Becomes(Push(World, Request("deleteUser", userID, "-", Zero, "-", "-", "-")))

CallDeposit ==
    /\ Len(ops) < MaxOps
    /\ \E args \in DepositArgs :
          Becomes(Push(World, Request("deposit", args[1], "-", args[2], args[3], "-", "-")))

CallWithdraw ==
    /\ Len(ops) < MaxOps
    /\ \E args \in WithdrawArgs :
          Becomes(Push(World, Request("withdraw", args[1], "-", args[2], args[3], "-", "-")))

CallTransfer ==
    /\ Len(ops) < MaxOps
    /\ \E args \in TransferArgs :
          Becomes(Push(World, Request("transfer", args[1], args[2], args[3], args[4],
                                      "-", "-")))

CallExchange ==
    /\ Len(ops) < MaxOps
    /\ \E args \in ExchangeArgs :
          Becomes(Push(World, Request("exchange", args[1], "-", args[2], args[3],
                                      args[4], "-")))

\* SQLite completes the statement some call is waiting for
Resume ==
    \E i \in DOMAIN ops :
        /\ CanAdvance(World, i)
        /\ Becomes(Advance(World, i))

Next ==
    \/ CallCreateUser
    \/ CallDeleteUser
    \/ CallDeposit
    \/ CallWithdraw
    \/ CallTransfer
    \/ CallExchange
    \/ Resume

Spec == Init /\ [][Next]_vars

(***************************************************************************)
(* Vocabulary of the properties                                            *)
(***************************************************************************)
MoneyKinds == {"deposit", "withdraw", "transfer", "exchange"}

Calls == DOMAIN ops

\* every call made so far has taken its last step
Quiescent == \A i \in Calls : ops[i].pc = "done"

\* the balance of the (user, currency) account in a set of account rows
BalanceIn(accounts, userID, currency) ==
    (CHOOSE a \in accounts : a.user_id = userID /\ a.currency = currency).balance

HasAccount(accounts, userID, currency) ==
    \E a \in accounts : a.user_id = userID /\ a.currency = currency

\* the rows of accounts, except those of the listed (user, currency) pairs
Others(accounts, pairs) ==
    {a \in accounts : <<a.user_id, a.currency>> \notin pairs}

\* the log rows a call wrote
RowsOf(transactions, i) ==
    {k \in DOMAIN transactions : transactions[k].op = i}

\* the calls run one after another, each awaited before the next is made
RECURSIVE RunToCompletion(_)
RunToCompletion(w) ==
    IF \E i \in DOMAIN w.ops : CanAdvance(w, i)
    THEN RunToCompletion(Advance(w, CHOOSE i \in DOMAIN w.ops : CanAdvance(w, i)))
    ELSE w

RECURSIVE RunSerially(_, _)
RunSerially(w, reqs) ==
    IF reqs = <<>> THEN w
    ELSE RunSerially(RunToCompletion(Push(w, Head(reqs))), Tail(reqs))

SerialWorld == RunSerially(InitWorld, [i \in Calls |-> ops[i].req])

(***************************************************************************)
(* C1: at most one mutating operation is executing at any moment: of the   *)
(* calls whose job has started, at most one has a pending promise.         *)
(***************************************************************************)
C1_OneAtATime ==
    Cardinality({i \in Calls : ops[i].pc # "queued" /\ ops[i].promise = "pending"}) <= 1

(***************************************************************************)
(* C2: once concurrently submitted deposits, withdrawals, transfers and    *)
(* exchanges have all finished, every account balance equals the balance   *)
(* the same calls leave when run one after another in submission order.    *)
(***************************************************************************)
C2_SerialBalance ==
    (Quiescent /\ \A i \in Calls : ops[i].req.kind \in MoneyKinds) =>
        \A a \in db.accounts :
            HasAccount(SerialWorld.db.accounts, a.user_id, a.currency) =>
                a.balance = BalanceIn(SerialWorld.db.accounts, a.user_id, a.currency)

(***************************************************************************)
(* C3: a deposit, withdraw, transfer or exchange that rejected leaves,     *)
(* once it and its rollback have finished, every account balance and the   *)
(* log as they were when it was called (no other call having taken a step  *)
(* in between).                                                            *)
(***************************************************************************)
C3_RejectedChangesNothing ==
    \A i \in Calls :
        (/\ ops[i].req.kind \in MoneyKinds
         /\ ops[i].promise = "rejected"
         /\ ops[i].after # <<>>)
        => /\ ops[i].after[1].accounts = ops[i].before[1].accounts
           /\ ops[i].after[1].transactions = ops[i].before[1].transactions

(***************************************************************************)
(* C4: in every reachable state every account balance is >= 0.             *)
(***************************************************************************)
C4_NoNegativeBalance ==
    \A a \in db.accounts : AtLeast(a.balance, Zero)

\* a withdrawal of exactly the available funds has committed next to other calls
C4_Witness ==
    \E i \in Calls :
        /\ ops[i].req.kind = "withdraw"
        /\ ops[i].promise = "resolved"
        /\ ~ops[i].undisturbed
        /\ HasAccount(db.accounts, ops[i].req.userID, ops[i].req.currency)
        /\ BalanceIn(db.accounts, ops[i].req.userID, ops[i].req.currency) = Zero

\* what a call ran on and what it left, when no other call took a step meanwhile
Before(i) == ops[i].before[1]
After(i) == ops[i].after[1]

\* call i has finished and no other call took a step while it ran
RanUndisturbed(i) == ops[i].after # <<>>

(***************************************************************************)
(* C5: a transfer(X, Y, A, C) that resolves, X = Y included, leaves X's C  *)
(* balance lower by exactly A + A * serviceFee, Y's C balance higher by    *)
(* exactly A, every other balance unchanged, and one transfer row          *)
(* (user_id X, target_user_id Y, fee_paid A * serviceFee) appended.        *)
(***************************************************************************)
C5_TransferEffect ==
    \A i \in Calls :
        (ops[i].req.kind = "transfer" /\ ops[i].promise = "resolved" /\ RanUndisturbed(i)) =>
            LET X == ops[i].req.userID
                Y == ops[i].req.recipientUserID
                A == ops[i].req.amount
                C == ops[i].req.currency
                fee == Times(A, serviceFee)
            IN /\ BalanceIn(After(i).accounts, X, C)
                    = Minus(BalanceIn(Before(i).accounts, X, C), Plus(A, fee))
               /\ BalanceIn(After(i).accounts, Y, C)
                    = Plus(BalanceIn(Before(i).accounts, Y, C), A)
               /\ Others(After(i).accounts, {<<X, C>>, <<Y, C>>})
                    = Others(Before(i).accounts, {<<X, C>>, <<Y, C>>})
               /\ Len(After(i).transactions) = Len(Before(i).transactions) + 1
               /\ SubSeq(After(i).transactions, 1, Len(Before(i).transactions))
                    = Before(i).transactions
               /\ LET row == After(i).transactions[Len(After(i).transactions)]
                  IN /\ row.transaction_type = "transfer"
                     /\ row.user_id = X
                     /\ row.target_user_id = Y
                     /\ row.amount = A
                     /\ row.fee_paid = fee

(***************************************************************************)
(* C6: an exchange(user, A, F, T) that resolves, F = T included, leaves    *)
(* the user's F balance lower by exactly A + A * serviceFee and the T      *)
(* balance higher by exactly convert(A, F, T), and appends one exchange    *)
(* row with currency F, target_currency T and fee_paid A * serviceFee.     *)
(***************************************************************************)
C6_ExchangeEffect ==
    \A i \in Calls :
        (ops[i].req.kind = "exchange" /\ ops[i].promise = "resolved" /\ RanUndisturbed(i)) =>
            LET U == ops[i].req.userID
                A == ops[i].req.amount
                F == ops[i].req.currency
                T == ops[i].req.toCurrency
                fee == Times(A, serviceFee)
            IN /\ BalanceIn(After(i).accounts, U, F)
                    = Minus(BalanceIn(Before(i).accounts, U, F), Plus(A, fee))
               /\ BalanceIn(After(i).accounts, U, T)
                    = Plus(BalanceIn(Before(i).accounts, U, T), toExchangedAmount(A, F, T))
               /\ Others(After(i).accounts, {<<U, F>>, <<U, T>>})
                    = Others(Before(i).accounts, {<<U, F>>, <<U, T>>})
               /\ Len(After(i).transactions) = Len(Before(i).transactions) + 1
               /\ SubSeq(After(i).transactions, 1, Len(Before(i).transactions))
                    = Before(i).transactions
               /\ LET row == After(i).transactions[Len(After(i).transactions)]
                  IN /\ row.transaction_type = "exchange"
                     /\ row.user_id = U
                     /\ row.currency = F
                     /\ row.target_currency = T
                     /\ row.amount = A
                     /\ row.fee_paid = fee

(***************************************************************************)
(* C7: a deposit(user, A, C) that resolves has appended exactly one row,   *)
(* of type deposit, amount A, currency C and fee_paid A * serviceFee; and, *)
(* measured over a run in which no other call took a step, the (user, C)   *)
(* balance is the balance before plus A minus A * serviceFee, with every   *)
(* other balance unchanged.                                                *)
(***************************************************************************)
C7_DepositEffect ==
    \A i \in Calls :
        (ops[i].req.kind = "deposit" /\ ops[i].promise = "resolved") =>
            LET U == ops[i].req.userID
                A == ops[i].req.amount
                C == ops[i].req.currency
                fee == Times(A, serviceFee)
            IN /\ Cardinality(RowsOf(db.transactions, i)) = 1
               /\ \A k \in RowsOf(db.transactions, i) :
                     /\ db.transactions[k].transaction_type = "deposit"
                     /\ db.transactions[k].user_id = U
                     /\ db.transactions[k].amount = A
                     /\ db.transactions[k].currency = C
                     /\ db.transactions[k].fee_paid = fee
               /\ RanUndisturbed(i) =>
                     /\ BalanceIn(After(i).accounts, U, C)
                          = Minus(Plus(BalanceIn(Before(i).accounts, U, C), A), fee)
                     /\ Others(After(i).accounts, {<<U, C>>})
                          = Others(Before(i).accounts, {<<U, C>>})
                     /\ Len(After(i).transactions) = Len(Before(i).transactions) + 1

(***************************************************************************)
(* C8: when a withdraw(user, A, C) reads a balance smaller than            *)
(* A + A * serviceFee, it rejects with the insufficient-funds error in     *)
(* that very step, and the step changes no table and not the fee pool.     *)
(***************************************************************************)
C8_InsufficientFundsStep(i) ==
    LET U == ops[i].req.userID
        A == ops[i].req.amount
        C == ops[i].req.currency
    IN (/\ ops[i].req.kind = "withdraw"
        /\ ops[i].pc = "SELECT"
        /\ ops'[i].pc # "SELECT"
        /\ HasAccount(db.accounts, U, C)
        /\ Greater(Plus(A, Times(A, serviceFee)), BalanceIn(db.accounts, U, C)))
       => /\ ops'[i].promise = "rejected"
          /\ ops'[i].error = "insufficient"
          /\ ops'[i].pc = "done"
          /\ db' = db
          /\ totalCollectedFeesPLN' = totalCollectedFeesPLN

C8_InsufficientFundsRejected ==
    [][\A i \in Calls : C8_InsufficientFundsStep(i)]_vars

\* a withdrawal of more than the account holds was rejected for insufficient
\* funds, and the ledger it left is the ledger it found
C8_Witness ==
    \E i \in Calls :
        /\ ops[i].req.kind = "withdraw"
        /\ ops[i].error = "insufficient"
        /\ RanUndisturbed(i)
        /\ Greater(BalanceIn(Before(i).accounts, ops[i].req.userID, ops[i].req.currency), Zero)
        /\ After(i) = Before(i)

(***************************************************************************)
(* C9: a withdraw(user, A, C) called on an existing account whose balance  *)
(* is at least A + A * serviceFee resolves with the value A, lowers the    *)
(* balance by exactly A + A * serviceFee and appends one withdrawal row    *)
(* with fee_paid A * serviceFee (no other call taking a step meanwhile).   *)
(***************************************************************************)
C9_WithdrawSucceeds ==
    \A i \in Calls :
        LET U == ops[i].req.userID
            A == ops[i].req.amount
            C == ops[i].req.currency
            fee == Times(A, serviceFee)
        IN (/\ ops[i].req.kind = "withdraw"
            /\ RanUndisturbed(i)
            /\ ZNumber(A)
            /\ HasAccount(Before(i).accounts, U, C)
            /\ AtLeast(BalanceIn(Before(i).accounts, U, C), Plus(A, fee)))
           => /\ ops[i].promise = "resolved"
              /\ ops[i].value = A
              /\ BalanceIn(After(i).accounts, U, C)
                   = Minus(BalanceIn(Before(i).accounts, U, C), Plus(A, fee))
              /\ Len(After(i).transactions) = Len(Before(i).transactions) + 1
              /\ LET row == After(i).transactions[Len(After(i).transactions)]
                 IN /\ row.transaction_type = "withdrawal"
                    /\ row.fee_paid = fee

(***************************************************************************)
(* C10: whenever every call has finished, the log holds as many rows as    *)
(* deposits, withdrawals, transfers and exchanges have resolved.           *)
(***************************************************************************)
C10_LogCountsSuccesses ==
    Quiescent =>
        Len(db.transactions)
            = Cardinality({i \in Calls : ops[i].req.kind \in MoneyKinds
                                         /\ ops[i].promise = "resolved"})

(***************************************************************************)
(* C11: whenever no call is in flight, the fee pool equals the sum of      *)
(* fee_paid, converted to PLN, over the rows of the transaction log; and   *)
(* no step lowers the fee pool.                                            *)
(***************************************************************************)
RECURSIVE SumOfFeesPLN(_)
SumOfFeesPLN(transactions) ==
    IF transactions = <<>> THEN Zero
    ELSE Plus(toExchangedAmount(Head(transactions).fee_paid,
                                Head(transactions).currency, "PLN"),
              SumOfFeesPLN(Tail(transactions)))

C11_FeePoolStep ==
    /\ Quiescent' => totalCollectedFeesPLN' = SumOfFeesPLN(db'.transactions)
    /\ AtLeast(totalCollectedFeesPLN', totalCollectedFeesPLN)

C11_FeePoolIsSumOfLoggedFees == [][C11_FeePoolStep]_vars

(***************************************************************************)
(* C12: collectServiceFee runs exactly once for each deposit, withdraw,    *)
(* transfer or exchange whose COMMIT succeeds, in the continuation of that *)
(* COMMIT, and for no other call: a step adds to the fee pool exactly when *)
(* one call's COMMIT closes the open transaction and the call resolves,    *)
(* what it adds is that call's fee in PLN, once, so that nothing is added  *)
(* for a call that rejects; and the call the fee is collected for was not  *)
(* rolled back: the row it logged is in the table.                         *)
(***************************************************************************)
\* in this step call i is told that its COMMIT succeeded
CommitSucceeds(i) ==
    /\ ops[i].req.kind \in MoneyKinds
    /\ ops[i].pc = "COMMIT"
    /\ ops[i].promise = "pending"
    /\ ops'[i].promise = "resolved"

C12_FeeCollectedStep ==
    /\ \A i \in Calls :
          CommitSucceeds(i) =>
              /\ db.tx # <<>>
              /\ db'.tx = <<>>
              /\ RowsOf(db'.transactions, i) # {}
              /\ totalCollectedFeesPLN' =
                     Plus(totalCollectedFeesPLN,
                          toExchangedAmount(Times(ops[i].req.amount, serviceFee),
                                            ops[i].req.currency, "PLN"))
    /\ totalCollectedFeesPLN' # totalCollectedFeesPLN =>
          Cardinality({i \in Calls : CommitSucceeds(i)}) = 1

C12_FeeCollectedOncePerCommit == [][C12_FeeCollectedStep]_vars

(***************************************************************************)
(* C13: in every state each user has exactly one account for each of PLN,  *)
(* USD and EUR (so the user never exists with only some of them, and no    *)
(* (user, currency) pair has two); and in the step in which createUser     *)
(* resolves, the user it returns exists and its three accounts have        *)
(* balance 0.                                                              *)
(***************************************************************************)
AccountsOf(accounts, userID, currency) ==
    {a \in accounts : a.user_id = userID /\ a.currency = currency}

OneAccountPerCurrency(database) ==
    /\ \A u \in database.users : \A c \in Currencies :
          Cardinality(AccountsOf(database.accounts, u.id, c)) = 1
    /\ \A a \in database.accounts :
          Cardinality(AccountsOf(database.accounts, a.user_id, a.currency)) = 1

C13_CreateUserStep ==
    \A i \in Calls :
        (/\ ops[i].req.kind = "createUser"
         /\ ops[i].promise = "pending"
         /\ ops'[i].promise = "resolved")
        => /\ ops'[i].value = <<ops[i].req.userID>>
           /\ \E u \in db'.users : u.id = ops[i].req.userID
           /\ \A c \in Currencies :
                 \E a \in db'.accounts :
                     /\ AccountsOf(db'.accounts, ops[i].req.userID, c) = {a}
                     /\ a.balance = Zero

C13_OneAccountPerUserAndCurrency ==
    [][OneAccountPerCurrency(db) /\ OneAccountPerCurrency(db') /\ C13_CreateUserStep]_vars

\* createUser has resolved while another call was running, and the new user is
\* there, third of three, with three accounts
C13_Witness ==
    \E i \in Calls :
        /\ ops[i].req.kind = "createUser"
        /\ ops[i].promise = "resolved"
        /\ ~ops[i].undisturbed
        /\ \E u \in db.users : u.id = ops[i].req.userID
        /\ Cardinality({a \in db.accounts : a.user_id = ops[i].req.userID}) = 3
        /\ Cardinality(db.users) = 3

(***************************************************************************)
(* C14: once deleteUser(u) has resolved for a user u that existed, the     *)
(* user row and all of u's accounts are gone and no account row names a    *)
(* missing user: getUser(u) returns undefined; the accounts of the other   *)
(* users are as deleteUser found them; and a deposit, withdraw, transfer   *)
(* or exchange that names u, made while u is gone, rejects with not-found  *)
(* and changes nothing.                                                    *)
(***************************************************************************)
\* the call names the user, as account owner or as recipient
Names(req, userID) ==
    \/ req.userID = userID
    \/ req.kind = "transfer" /\ req.recipientUserID = userID

WellFormed(req) ==
    /\ ZUserID(req.userID)
    /\ ZNumber(req.amount)
    /\ ZCurrency(req.currency)
    /\ req.kind = "transfer" => ZUserID(req.recipientUserID)
    /\ req.kind = "exchange" => ZCurrency(req.toCurrency)

C14_DeletedUserIsGone ==
    \A i \in Calls :
        (/\ ops[i].req.kind = "deleteUser"
         /\ ops[i].promise = "resolved"
         /\ \E u \in InitWorld.db.users : u.id = ops[i].req.userID)
        => LET u == ops[i].req.userID
           IN /\ getUser(db, u) = undefined
              /\ \A a \in db.accounts : a.user_id # u
              /\ \A a \in db.accounts : \E v \in db.users : v.id = a.user_id
              /\ RanUndisturbed(i) =>
                    {a \in After(i).accounts : a.user_id # u}
                        = {a \in Before(i).accounts : a.user_id # u}
              /\ \A j \in Calls :
                    (/\ j > i
                     /\ ops[j].req.kind \in MoneyKinds
                     /\ WellFormed(ops[j].req)
                     /\ Names(ops[j].req, u)
                     /\ RanUndisturbed(j)
                     /\ \A v \in Before(j).users : v.id # u)
                    => /\ ops[j].promise = "rejected"
                       /\ ops[j].error = "not-found"
                       /\ After(j) = Before(j)

(***************************************************************************)
(* C15: deleteUser called with a well-formed id that matches no user       *)
(* resolves and leaves the users, the accounts, the log and the fee pool   *)
(* as they were; in particular a second deleteUser of the same id, made    *)
(* right after the first, resolves and leaves what the first one left.     *)
(***************************************************************************)
C15_DeleteUnknownUserIsNoOp ==
    \A i \in Calls :
        (/\ ops[i].req.kind = "deleteUser"
         /\ ZUserID(ops[i].req.userID)
         /\ RanUndisturbed(i))
        => /\ ops[i].promise = "resolved"
           /\ getUser([users |-> Before(i).users], ops[i].req.userID) = undefined
                 => After(i) = Before(i)
           /\ \A j \in Calls :
                 (/\ j > i
                  /\ ops[j].req.kind = "deleteUser"
                  /\ ops[j].req.userID = ops[i].req.userID
                  /\ RanUndisturbed(j)
                  /\ Before(j) = After(i))
                 => /\ ops[j].promise = "resolved"
                    /\ After(j) = After(i)

\* an existing user was deleted twice in a row: the first call removed the user,
\* the second found no user and changed nothing
C15_Witness ==
    \E i, j \in Calls :
        /\ j > i
        /\ ops[i].req.kind = "deleteUser"
        /\ ops[j].req.kind = "deleteUser"
        /\ ops[j].req.userID = ops[i].req.userID
        /\ RanUndisturbed(i)
        /\ RanUndisturbed(j)
        /\ getUser([users |-> Before(i).users], ops[i].req.userID) # undefined
        /\ getUser([users |-> Before(j).users], ops[j].req.userID) = undefined
        /\ ops[j].promise = "resolved"
        /\ After(j) = Before(j)

(***************************************************************************)
(* C16: a call whose input is malformed (empty user name, user id that is  *)
(* not a UUID, amount that is not positive, currency outside PLN, USD,     *)
(* EUR) rejects with the validation error without ever waiting for a       *)
(* statement (no read, no write, no BEGIN, no ROLLBACK), and leaves the    *)
(* users, the accounts, the log and the fee pool as they were.             *)
(***************************************************************************)
Malformed(req) ==
    LET badUser(u) == u \notin UUIDs
        badAmount(x) == ~Greater(x, Zero)
        badCurrency(c) == c \notin {"PLN", "USD", "EUR"}
    IN CASE req.kind = "createUser" -> req.username = ""
         [] req.kind = "deleteUser" -> badUser(req.userID)
         [] req.kind \in {"deposit", "withdraw"} ->
                badUser(req.userID) \/ badAmount(req.amount) \/ badCurrency(req.currency)
         [] req.kind = "transfer" ->
                \/ badUser(req.userID) \/ badUser(req.recipientUserID)
                \/ badAmount(req.amount) \/ badCurrency(req.currency)
         [] req.kind = "exchange" ->
                \/ badUser(req.userID) \/ badAmount(req.amount)
                \/ badCurrency(req.currency) \/ badCurrency(req.toCurrency)

C16_MalformedInputRejected ==
    \A i \in Calls :
        Malformed(ops[i].req) =>
            /\ ops[i].pc \in {"queued", "done"}
            /\ ~ops[i].inTransaction
            /\ ops[i].pc = "done" =>
                  /\ ops[i].promise = "rejected"
                  /\ ops[i].error = "validation"
                  /\ RanUndisturbed(i) /\ After(i) = Before(i)

\* a deposit of a negative amount was rejected and changed nothing, next to an
\* earlier call that is still running with its transaction open
C16_Witness ==
    \E i \in Calls :
        /\ ops[i].req.kind = "deposit"
        /\ ~Greater(ops[i].req.amount, Zero)
        /\ ops[i].promise = "rejected"
        /\ ops[i].error = "validation"
        /\ After(i) = Before(i)
        /\ db.tx # <<>>
        /\ \E j \in Calls : j < i /\ ops[j].inTransaction /\ ops[j].promise = "pending"

(***************************************************************************)
(* C17: a deposit, withdraw, transfer or exchange that is rejected because *)
(* an account is not found or funds are insufficient issues neither BEGIN  *)
(* TRANSACTION nor ROLLBACK: it is rejected in the continuation of one of  *)
(* its SELECTs, in a step that leaves the database and any transaction     *)
(* open on the connection alone, and it is over with that step.            *)
(***************************************************************************)
C17_EarlyRejectStep ==
    \A i \in Calls :
        (ops[i].req.kind \in MoneyKinds /\ ops'[i].error \in {"not-found", "insufficient"})
        => /\ ops'[i].promise = "rejected"
           /\ ops'[i].pc = "done"
           /\ ~ops'[i].inTransaction
           /\ ops[i].error = "none" =>
                 /\ ops[i].pc \in {"SELECT", "SELECT2"}
                 /\ db' = db

C17_NoTransactionForEarlyReject == [][C17_EarlyRejectStep]_vars

\* a transfer was rejected for insufficient funds and a deposit for its missing
\* account while a third call's transaction was open, and it still is
C17_Witness ==
    \E i, j \in Calls :
        /\ ops[i].req.kind = "transfer"
        /\ ops[i].error = "insufficient"
        /\ ops[j].req.kind = "deposit"
        /\ ops[j].error = "not-found"
        /\ db.tx # <<>>
        /\ \E k \in Calls : k < i /\ k < j /\ ops[k].inTransaction /\ ops[k].promise = "pending"

(***************************************************************************)
(* C18: a rejected call affects only itself.  The calls made after it are  *)
(* started all the same (none waits unless a job is running); the step in  *)
(* which a call rejects, and every step it alone takes after that, leaves  *)
(* the tables, the open transaction and the fee pool as they were; and no  *)
(* row it wrote stays in the log, so that the other calls find what they   *)
(* would have found without it.                                            *)
(***************************************************************************)
C18_RejectedCallStep ==
    \A i \in Calls :
        ops'[i].promise = "rejected" =>
            /\ \A j \in Calls :
                  (j > i /\ ops'[j].pc = "queued") =>
                      \E k \in Calls : ops'[k].pc \notin {"queued", "done"}
            /\ (ops'[i].pc # ops[i].pc /\ \A k \in Calls \ {i} : ops'[k].pc = ops[k].pc) =>
                  /\ db' = db
                  /\ totalCollectedFeesPLN' = totalCollectedFeesPLN
            /\ ops'[i].pc = "done" => RowsOf(db'.transactions, i) = {}

C18_RejectedCallAffectsOnlyItself == [][C18_RejectedCallStep]_vars

(***************************************************************************)
(* C19: every call that is made settles, and settles once: provided the    *)
(* statement each job waits for eventually completes, its promise          *)
(* eventually leaves "pending", on every path, and a promise that is       *)
(* resolved or rejected stays as it is.                                    *)
(***************************************************************************)
\* SQLite completes the statement call i is waiting for: Advance(World, i),
\* stage by stage
ResumeCall(i) ==
    /\ i \in DOMAIN ops
    /\ CanAdvance(World, i)
    /\ \E w \in {World} : \E w0 \in {Disturb(w, i)} : \E w1 \in {Method(w0, i)} :
       \E w2 \in {IF w0.ops[i].promise = "pending" /\ w1.ops[i].promise # "pending"
                  THEN JobDone(w1) ELSE w1} :
          Becomes(Observe(w2))

\* at most this many calls are made in a behaviour of FairSpec
MaxFairOps == 2

FairNext == Next /\ Len(ops') <= MaxFairOps

\* each storage call eventually returns
FairSpec ==
    Init /\ [][FairNext]_vars /\ \A i \in 1..MaxFairOps : WF_vars(ResumeCall(i))

SettledForGood ==
    \A i \in Calls : ops[i].promise # "pending" => ops'[i].promise = ops[i].promise

C19_SettlesExactlyOnce ==
    /\ \A i \in 1..MaxFairOps :
          (i \in DOMAIN ops) ~> (i \in DOMAIN ops /\ ops[i].promise # "pending")
    /\ [][SettledForGood]_vars

\* one call committed and the other, its BEGIN having failed, was rejected and
\* has run its ROLLBACK: both promises are settled
C19_Witness ==
    \E i, j \in Calls :
        /\ ops[i].promise = "resolved"
        /\ ops[i].req.kind \in MoneyKinds
        /\ ops[j].promise = "rejected"
        /\ ops[j].error = "storage"
        /\ Quiescent

(***************************************************************************)
(* C20: a read-only query that runs while a mutating call is in flight     *)
(* observes the state before that call or the state after it, never one    *)
(* in between.  The queries are not queued: each is one SELECT on the      *)
(* connection, which SQLite may run in any state.  So, whenever exactly    *)
(* one call is in flight, the balances getBalance returns and the rows of  *)
(* the log are, all together, those of the moment the call was made or     *)
(* those the call leaves when it has finished.                             *)
(***************************************************************************)
\* what the queries return in a state: every balance, and the log
Observed(database) ==
    [balances |-> [a \in {<<r.user_id, r.currency>> : r \in database.accounts} |->
                      getBalance(database, a[1], a[2])],
     transactions |-> database.transactions]

\* call i is the only call in flight, and no other call has stepped since it was made
OnlyInFlight(i) ==
    /\ ops[i].pc \notin {"queued", "done"}
    /\ ops[i].promise = "pending"
    /\ ops[i].before # <<>>
    /\ \A k \in Calls \ {i} : ops[k].pc = "done"

C20_ReadsSeeBeforeOrAfter ==
    \A i \in Calls :
        OnlyInFlight(i) =>
            \/ Observed(db) = Observed(Before(i))
            \/ Observed(db) = Observed(RunToCompletion(World).db)

(***************************************************************************)
(* The read methods of AccountsAPI.ts.  None goes through the queue: each  *)
(* validates its arguments and sends one SELECT to the connection.  An     *)
(* optional argument is <<>> when it is omitted and <<value>> otherwise;   *)
(* what a method gives back is Returned(value) or Threw(error).  A row of  *)
(* the log carries here its id and its made_at, which the table fills in.  *)
(***************************************************************************)
Returned(value) == [threw |-> FALSE, error |-> "none", value |-> <<value>>]

Threw(error) == [threw |-> TRUE, error |-> error, value |-> <<>>]

omitted == <<>>

TransactionTypes == {"deposit", "withdrawal", "transfer", "exchange"}

ZTransactionType(t) == t \in TransactionTypes

\* z.number(): made_at is compared with it as an integer number of seconds
ZDate(n) == n \in Int

\* each field is .optional(): omitted, or a value its guard accepts
ZTransactionHistoryOptions(options) ==
    /\ (options.userID = omitted          \/ ZUserID(options.userID[1]))
    /\ (options.currency = omitted        \/ ZCurrency(options.currency[1]))
    /\ (options.maxAmount = omitted       \/ ZNumber(options.maxAmount[1]))
    /\ (options.minAmount = omitted       \/ ZNumber(options.minAmount[1]))
    /\ (options.transactionType = omitted \/ ZTransactionType(options.transactionType[1]))
    /\ (options.startDate = omitted       \/ ZDate(options.startDate[1]))
    /\ (options.endDate = omitted         \/ ZDate(options.endDate[1]))

ZUserProfitsOptions(options) ==
    /\ ZUserID(options.userID)
    /\ (options.transactionTypes = omitted
        \/ options.transactionTypes[1] \subseteq TransactionTypes)
    /\ (options.startDate = omitted \/ ZDate(options.startDate[1]))
    /\ (options.endDate = omitted   \/ ZDate(options.endDate[1]))

\* HistoryWhere with amount > $min_amount in place of amount >= $min_amount
HistoryWhere_StrictMinimum(row, options) ==
    /\ (options.userID = omitted          \/ row.user_id = options.userID[1])
    /\ (options.currency = omitted        \/ row.currency = options.currency[1])
    /\ (options.minAmount = omitted       \/ Greater(row.amount, options.minAmount[1]))
    /\ (options.maxAmount = omitted       \/ AtLeast(options.maxAmount[1], row.amount))
    /\ (options.transactionType = omitted \/ row.transaction_type = options.transactionType[1])
    /\ (options.startDate = omitted       \/ row.made_at >= options.startDate[1])
    /\ (options.endDate = omitted         \/ row.made_at <= options.endDate[1])

\* SELECT * FROM transactions WHERE ($user_id IS NULL OR user_id = $user_id) AND ...
HistoryWhere(row, options) ==
    /\ (options.userID = omitted          \/ row.user_id = options.userID[1])
    /\ (options.currency = omitted        \/ row.currency = options.currency[1])
    /\ (options.minAmount = omitted       \/ AtLeast(row.amount, options.minAmount[1]))
    /\ (options.maxAmount = omitted       \/ AtLeast(options.maxAmount[1], row.amount))
    /\ (options.transactionType = omitted \/ row.transaction_type = options.transactionType[1])
    /\ (options.startDate = omitted       \/ row.made_at >= options.startDate[1])
    /\ (options.endDate = omitted         \/ row.made_at <= options.endDate[1])

\* getTransactionHistory(options): AccountsAPI.ts 487-515
getTransactionHistory(database, options) ==
    IF ~ZTransactionHistoryOptions(options) THEN Threw("validation")
    ELSE Returned(SelectSeq(database.transactions, LAMBDA row : HistoryWhere(row, options)))

\* WHERE user_id = $user_id OR target_user_id = $user_id AND (...) AND (...):
\* AND binds tighter than OR
ProfitsWhere(row, options) ==
    \/ row.user_id = options.userID
    \/ /\ row.target_user_id = options.userID
       /\ (options.startDate = omitted \/ row.made_at >= options.startDate[1])
       /\ (options.endDate = omitted   \/ row.made_at <= options.endDate[1])

toPLN(transaction) ==
    <<toExchangedAmount(transaction.amount, transaction.currency, "PLN"),
      toExchangedAmount(transaction.fee_paid, transaction.currency, "PLN")>>

\* ProfitsOfOne with the fee of an incoming transfer charged to its recipient too
ProfitsOfOne_RecipientPaysFee(results, transaction, options) ==
    LET type == transaction.transaction_type
        amount == toPLN(transaction)[1]
        fee == toPLN(transaction)[2]
        Add(r, profit, fees) ==
            [totalProfits |-> Plus(r.totalProfits, profit),
             totalFees |-> Plus(r.totalFees, fees),
             transactions |-> Append(r.transactions, transaction)]
        incoming == IF type = "transfer" /\ transaction.target_user_id = options.userID
                    THEN Add(results, amount, fee) ELSE results
    IN IF options.transactionTypes # omitted /\ type \notin options.transactionTypes[1]
       THEN results
       ELSE CASE type = "deposit" -> Add(results, Minus(amount, fee), fee)
              [] type = "withdrawal" -> Add(results, Minus(Zero, Plus(amount, fee)), fee)
              [] type = "transfer" ->
                     IF transaction.user_id = options.userID
                     THEN Add(incoming, Minus(Zero, Plus(amount, fee)), fee)
                     ELSE incoming
              [] type = "exchange" -> Add(results, Zero, fee)

\* one pass of the loop of getUserProfits over `transaction`
ProfitsOfOne(results, transaction, options) ==
    LET type == transaction.transaction_type
        amount == toPLN(transaction)[1]
        fee == toPLN(transaction)[2]
        Add(r, profit, fees) ==
            [totalProfits |-> Plus(r.totalProfits, profit),
             totalFees |-> Plus(r.totalFees, fees),
             transactions |-> Append(r.transactions, transaction)]
        incoming == IF type = "transfer" /\ transaction.target_user_id = options.userID
                    THEN Add(results, amount, Zero) ELSE results
    IN IF options.transactionTypes # omitted /\ type \notin options.transactionTypes[1]
       THEN results
       ELSE CASE type = "deposit" -> Add(results, Minus(amount, fee), fee)
              [] type = "withdrawal" -> Add(results, Minus(Zero, Plus(amount, fee)), fee)
              [] type = "transfer" ->
                     IF transaction.user_id = options.userID
                     THEN Add(incoming, Minus(Zero, Plus(amount, fee)), fee)
                     ELSE incoming
              [] type = "exchange" -> Add(results, Zero, fee)

RECURSIVE ProfitsLoop(_, _, _)
ProfitsLoop(results, transactions, options) ==
    IF transactions = <<>> THEN results
    ELSE ProfitsLoop(ProfitsOfOne(results, Head(transactions), options),
                     Tail(transactions), options)

\* getUserProfits(options): AccountsAPI.ts 521-601
getUserProfits(database, options) ==
    IF ~ZUserProfitsOptions(options) THEN Threw("validation")
    ELSE Returned(ProfitsLoop(
             [totalProfits |-> Zero, totalFees |-> Zero, transactions |-> <<>>],
             SelectSeq(database.transactions, LAMBDA row : ProfitsWhere(row, options)),
             options))

\* a read method called with its arguments: what it gives back
Query(database, q) ==
    CASE q.kind = "getUser" ->
             IF ~ZUserID(q.userID) THEN Threw("validation")
             ELSE Returned(getUser(database, q.userID))
      [] q.kind = "getAccount" ->
             IF ~(ZUserID(q.userID) /\ ZCurrency(q.currency)) THEN Threw("validation")
             ELSE Returned(SelectAccount(database, q.userID, q.currency))
      [] q.kind = "getBalance" ->
             IF ~(ZUserID(q.userID) /\ ZCurrency(q.currency)) THEN Threw("validation")
             ELSE IF SelectAccount(database, q.userID, q.currency) = undefined
             THEN Threw("TypeError")
             ELSE Returned(getBalance(database, q.userID, q.currency))
      [] q.kind = "getTransactionHistory" -> getTransactionHistory(database, q.options)
      [] q.kind = "getUserProfits" -> getUserProfits(database, q.options)

(***************************************************************************)
(* The read methods at work: a caller makes mutating calls, awaiting each  *)
(* (as the tests do), and then reads.  The table stamps each new row with  *)
(* its id and with made_at, the time of the INSERT.                        *)
(***************************************************************************)
\* the log holds at most this many rows when the reads are made
MaxRows == 4

\* the clock (STRFTIME('%s', 'now')) shows 1..MaxTime
MaxTime == 3

\* at most this many reads are made in a behaviour
MaxReads == 1

\* id INTEGER PRIMARY KEY AUTOINCREMENT, made_at INTEGER DEFAULT (STRFTIME('%s', 'now'))
Stamp(database, now) ==
    [database EXCEPT !.transactions = [k \in DOMAIN @ |->
        IF "made_at" \in DOMAIN @[k] THEN @[k]
        ELSE [f \in DOMAIN @[k] \cup {"id", "made_at"} |->
                 CASE f = "id" -> k
                   [] f = "made_at" -> now
                   [] OTHER -> @[k][f]]]]

\* the public method is called and awaited, at time now
Await(w, req, now) ==
    LET w1 == RunToCompletion(Push([w EXCEPT !.ops = <<>>], req))
    IN [w1 EXCEPT !.db = Stamp(@, now), !.ops = <<>>]

\* await api.deposit(u1, 21, 'PLN'); await api.deposit(u2, 21, 'PLN'), at time 1
FundedWorld ==
    Await(Await(InitWorld, Request("deposit", "u1", "-", Num(21, 1), "PLN", "-", "-"), 1),
          Request("deposit", "u2", "-", Num(21, 1), "PLN", "-", "-"), 1)

AwaitedRequests ==
    {Request("transfer", "u1", "u2", Num(19, 1), "PLN", "-", "-"),
     Request("transfer", "u2", "u1", Num(19, 1), "PLN", "-", "-"),
     Request("transfer", "u1", "u1", Num(19, 1), "PLN", "-", "-"),
     Request("withdraw", "u1", "-", Num(19, 1), "PLN", "-", "-"),
     Request("exchange", "u1", "-", Num(19, 1), "PLN", "USD", "-"),
     Request("deposit", "u1", "-", Num(21, 1), "USD", "-", "-"),
     Request("deleteUser", "u1", "-", Zero, "-", "-", "-")}

UserArgs == {"u1", "u3", "not-a-uuid"}

AccountArgs == {<<"u1", "PLN">>, <<"u3", "PLN">>, <<"not-a-uuid", "PLN">>, <<"u1", "GBP">>}

HistoryOptionsArgs ==
    [userID : {omitted, <<"u1">>, <<"not-a-uuid">>},
     currency : {omitted, <<"PLN">>},
     minAmount : {omitted, <<Num(21, 1)>>},
     maxAmount : {omitted, <<Num(19, 1)>>},
     transactionType : {omitted, <<"transfer">>},
     startDate : {omitted, <<2>>},
     endDate : {omitted, <<2>>}]

ProfitsOptionsArgs ==
    [userID : {"u1", "u2", "not-a-uuid"},
     transactionTypes : {omitted, <<{"deposit", "transfer"}>>},
     startDate : {omitted, <<2>>},
     endDate : {omitted, <<2>>}]

QueryInit ==
    /\ db = FundedWorld.db
    /\ totalCollectedFeesPLN = FundedWorld.totalCollectedFeesPLN
    /\ queue = FundedWorld.queue
    /\ ops = <<>>
    /\ reads = <<>>
    /\ env = DotEnv
    /\ eaf = <<ExchangeAndFees(DotEnv)>>
    /\ calc = <<>>

AwaitCall ==
    /\ reads = <<>>
    /\ Len(db.transactions) < MaxRows
    /\ \E req \in AwaitedRequests, now \in 1..MaxTime :
          /\ now >= db.transactions[Len(db.transactions)].made_at
          /\ Becomes(Await(World, req, now))

\* the read method is called; SQLite runs its SELECT on the tables as they are
Read(q) ==
    /\ reads' = Append(reads, [query |-> q, result |-> Query(db, q)])
    /\ UNCHANGED <<db, totalCollectedFeesPLN, queue, ops, env, eaf, calc>>

CallGetUser ==
    /\ Len(reads) < MaxReads
    /\ \E userID \in UserArgs : Read([kind |-> "getUser", userID |-> userID])

CallGetAccount ==
    /\ Len(reads) < MaxReads
    /\ \E args \in AccountArgs :
          Read([kind |-> "getAccount", userID |-> args[1], currency |-> args[2]])

CallGetBalance ==
    /\ Len(reads) < MaxReads
    /\ \E args \in AccountArgs :
          Read([kind |-> "getBalance", userID |-> args[1], currency |-> args[2]])

CallGetTransactionHistory ==
    /\ Len(reads) < MaxReads
    /\ \E options \in HistoryOptionsArgs :
          Read([kind |-> "getTransactionHistory", options |-> options])

CallGetUserProfits ==
    /\ Len(reads) < MaxReads
    /\ \E options \in ProfitsOptionsArgs :
          Read([kind |-> "getUserProfits", options |-> options])

QueryNext ==
    \/ AwaitCall
    \/ CallGetUser
    \/ CallGetAccount
    \/ CallGetBalance
    \/ CallGetTransactionHistory
    \/ CallGetUserProfits

QuerySpec == QueryInit /\ [][QueryNext]_vars

(***************************************************************************)
(* The constructor at work: the process is started in some environment and *)
(* new ExchangeAndFees() runs.                                             *)
(***************************************************************************)
\* absent, text that is no number, a number that is not positive, a positive number
EnvValues == {absent, <<"abc">>, Num(-1, 1), Num(1, 4)}

Environments == [process : [EnvKeys -> EnvValues], file : [EnvKeys -> EnvValues]]

ConfigInit ==
    /\ db = InitWorld.db
    /\ totalCollectedFeesPLN = InitWorld.totalCollectedFeesPLN
    /\ queue = InitWorld.queue
    /\ ops = <<>>
    /\ reads = <<>>
    /\ env \in Environments
    /\ eaf = <<>>
    /\ calc = <<>>

Construct ==
    /\ eaf = <<>>
    /\ eaf' = <<ExchangeAndFees(env)>>
    /\ UNCHANGED <<db, totalCollectedFeesPLN, queue, ops, reads, env, calc>>

ConfigNext ==
    \/ Construct

ConfigSpec == ConfigInit /\ [][ConfigNext]_vars

(***************************************************************************)
(* C21: getUser, getAccount and getBalance, called with a well-formed user *)
(* id (and a supported currency) for which there is no row, return         *)
(* undefined and do not throw; called with a malformed user id they fail   *)
(* validation.                                                             *)
(***************************************************************************)
NoRowFor(database, q) ==
    IF q.kind = "getUser" THEN \A u \in database.users : u.id # q.userID
    ELSE \A a \in database.accounts : ~(a.user_id = q.userID /\ a.currency = q.currency)

C21_AbsentRowReadsAsUndefined ==
    \A k \in DOMAIN reads :
        LET q == reads[k].query
            result == reads[k].result
        IN q.kind \in {"getUser", "getAccount", "getBalance"} =>
              /\ q.userID \notin UUIDs =>
                    result.threw /\ result.error = "validation"
              /\ (/\ q.userID \in UUIDs
                  /\ q.kind # "getUser" => q.currency \in {"PLN", "USD", "EUR"}
                  /\ NoRowFor(db, q))
                 => ~result.threw /\ result.value = <<undefined>>

(***************************************************************************)
(* C22: getTransactionHistory(filter) returns exactly the records of the   *)
(* log that satisfy every supplied field at once: user_id equal to userID  *)
(* (a record in which the user is only the recipient is left out),         *)
(* currency equal, minAmount <= amount <= maxAmount, transaction_type      *)
(* equal, startDate <= made_at <= endDate, all bounds inclusive.  An       *)
(* omitted field constrains nothing: the empty filter returns the log.     *)
(***************************************************************************)
Supplied(option) == option # omitted

Satisfies(record, filter) ==
    /\ Supplied(filter.userID) => record.user_id = filter.userID[1]
    /\ Supplied(filter.currency) => record.currency = filter.currency[1]
    /\ Supplied(filter.minAmount) => ~Greater(filter.minAmount[1], record.amount)
    /\ Supplied(filter.maxAmount) => ~Greater(record.amount, filter.maxAmount[1])
    /\ Supplied(filter.transactionType) => record.transaction_type = filter.transactionType[1]
    /\ Supplied(filter.startDate) => filter.startDate[1] <= record.made_at
    /\ Supplied(filter.endDate) => record.made_at <= filter.endDate[1]

EmptyFilter ==
    [userID |-> omitted, currency |-> omitted, minAmount |-> omitted, maxAmount |-> omitted,
     transactionType |-> omitted, startDate |-> omitted, endDate |-> omitted]

HistoryReads ==
    {k \in DOMAIN reads : /\ reads[k].query.kind = "getTransactionHistory"
                          /\ ZTransactionHistoryOptions(reads[k].query.options)}

ProfitsReads ==
    {k \in DOMAIN reads : /\ reads[k].query.kind = "getUserProfits"
                          /\ ZUserProfitsOptions(reads[k].query.options)}

InRange(record, options) ==
    /\ Supplied(options.startDate) => options.startDate[1] <= record.made_at
    /\ Supplied(options.endDate) => record.made_at <= options.endDate[1]

C23_ProfitsRespectDateRange ==
    \A k \in ProfitsReads :
        LET options == reads[k].query.options
            results == reads[k].result.value[1]
        IN \A n \in DOMAIN results.transactions :
              InRange(results.transactions[n], options)

(***************************************************************************)
(* C24: over the records its query selects, with amount and fee converted  *)
(* to PLN, getUserProfits applies this rule: a deposit adds amount - fee   *)
(* to the profit and fee to the fees; a withdrawal subtracts amount + fee  *)
(* and adds fee to the fees; a transfer sent by the user subtracts         *)
(* amount + fee and adds fee to the fees; a transfer received by the user  *)
(* adds amount and no fee; an exchange adds 0 and adds fee to the fees; a  *)
(* record whose type is not in transactionTypes, when given, adds nothing. *)
(***************************************************************************)
Counted(record, options) ==
    Supplied(options.transactionTypes) => record.transaction_type \in options.transactionTypes[1]

Sent(record, options) ==
    record.transaction_type = "transfer" /\ record.user_id = options.userID

Received(record, options) ==
    record.transaction_type = "transfer" /\ record.target_user_id = options.userID

ProfitOf(record, options) ==
    LET amount == toPLN(record)[1]
        fee == toPLN(record)[2]
    IN IF ~Counted(record, options) THEN Zero
       ELSE CASE record.transaction_type = "deposit" -> Minus(amount, fee)
              [] record.transaction_type = "withdrawal" -> Minus(Zero, Plus(amount, fee))
              [] record.transaction_type = "exchange" -> Zero
              [] record.transaction_type = "transfer" ->
                     Plus(IF Received(record, options) THEN amount ELSE Zero,
                          IF Sent(record, options) THEN Minus(Zero, Plus(amount, fee)) ELSE Zero)

FeesOf(record, options) ==
    IF ~Counted(record, options) THEN Zero
    ELSE IF record.transaction_type = "transfer" /\ ~Sent(record, options) THEN Zero
    ELSE toPLN(record)[2]

RECURSIVE Total(_, _, _)
Total(Of(_, _), records, options) ==
    IF records = <<>> THEN Zero
    ELSE Plus(Of(Head(records), options), Total(Of, Tail(records), options))

Selected(options) == SelectSeq(db.transactions, LAMBDA row : ProfitsWhere(row, options))

C24_ProfitsFollowTheRule ==
    \A k \in ProfitsReads :
        LET options == reads[k].query.options
            results == reads[k].result.value[1]
        IN /\ results.totalProfits = Total(ProfitOf, Selected(options), options)
           /\ results.totalFees = Total(FeesOf, Selected(options), options)

\* the profits of u2 have been computed over a deposit of u2, a transfer u2 received
\* and a transfer u2 sent
C24_Witness ==
    \E k \in ProfitsReads :
        LET options == reads[k].query.options
            results == reads[k].result.value[1]
        IN /\ options.userID = "u2"
           /\ \E a, b, c \in DOMAIN results.transactions :
                 /\ results.transactions[a].transaction_type = "deposit"
                 /\ Received(results.transactions[b], options)
                 /\ Sent(results.transactions[c], options)
           /\ Greater(results.totalFees, Zero)
           /\ results.totalProfits # Zero

(***************************************************************************)
(* C25: the list returned by getUserProfits({userID}) holds each record of *)
(* the log in which the user is the source or the recipient of a transfer  *)
(* exactly once, and no other record: its length is the number of such     *)
(* records.                                                                *)
(***************************************************************************)
Concerns(record, userID) ==
    \/ record.user_id = userID
    \/ record.transaction_type = "transfer" /\ record.target_user_id = userID

Occurrences(list, record) == Cardinality({n \in DOMAIN list : list[n] = record})

C25_EachRecordListedOnce ==
    \A k \in ProfitsReads :
        LET options == reads[k].query.options
            list == reads[k].result.value[1].transactions
            concerned == {m \in DOMAIN db.transactions :
                             Concerns(db.transactions[m], options.userID)}
        IN (/\ options.transactionTypes = omitted
            /\ options.startDate = omitted
            /\ options.endDate = omitted)
           => /\ \A m \in DOMAIN db.transactions :
                    Occurrences(list, db.transactions[m]) = IF m \in concerned THEN 1 ELSE 0
              /\ Len(list) = Cardinality(concerned)

(***************************************************************************)
(* C26: the log is append-only.  Once a record is committed no later step  *)
(* removes it or changes a field of it, be it deleteUser of the user it    *)
(* names or the rollback of a later operation: the sequence of committed   *)
(* records only grows, by appending.                                       *)
(***************************************************************************)
\* the rows of the log that are committed: all of them when no transaction is open,
\* and otherwise those that were there at BEGIN
Committed == IF db.tx = <<>> THEN db.transactions ELSE db.tx[1].transactions

IsPrefix(s, t) == Len(s) <= Len(t) /\ SubSeq(t, 1, Len(s)) = s

C26_LogGrowsByAppending == [][IsPrefix(Committed, Committed')]_vars

\* u1 has been deleted after their deposit was committed, and the record is there
C26_Witness ==
    /\ \E i, j \in Calls :
          /\ ops[i].req.kind = "deposit" /\ ops[i].promise = "resolved"
          /\ ops[j].req.kind = "deleteUser" /\ ops[j].promise = "resolved"
          /\ ops[i].req.userID = ops[j].req.userID
          /\ \E k \in RowsOf(Committed, i) : Committed[k].user_id = ops[j].req.userID
          /\ ops[i].after # <<>>
          /\ \E u \in ops[i].after[1].users : u.id = ops[j].req.userID
    /\ \A u \in db.users : u.id # "u1"
    /\ Quiescent

(***************************************************************************)
(* C27: mutating operations take effect in the order of submission: when i *)
(* is submitted before j, i has settled (resolved or rejected) before j    *)
(* makes its first storage read, so the records of the log are in the      *)
(* order in which their operations were submitted.                         *)
(***************************************************************************)
\* call j is past its first SELECT and still at work
HasRead(j) == ops[j].pc \in {"SELECT2", "BEGIN", "UPDATE", "UPDATE2", "INSERT", "COMMIT"}

C27_InSubmissionOrder ==
    /\ \A i, j \in Calls : i < j /\ HasRead(j) => ops[i].promise # "pending"
    /\ \A a, b \in DOMAIN db.transactions :
          a < b => db.transactions[a].op < db.transactions[b].op

(***************************************************************************)
(* C28: no operation issues BEGIN TRANSACTION while a transaction opened   *)
(* by another operation is open; at most one uncommitted transaction       *)
(* exists at any time and it belongs to the operation that is executing:   *)
(* while a transaction is open no call has a BEGIN outstanding, and the    *)
(* one call at work is the one between its BEGIN and its COMMIT.           *)
(***************************************************************************)
Executing == {i \in Calls : ops[i].pc # "queued" /\ ops[i].promise = "pending"}

InsideTransaction(i) == ops[i].pc \in {"UPDATE", "UPDATE2", "INSERT", "COMMIT"}

C28_OneTransactionAtATime ==
    db.tx # <<>> =>
        /\ \A j \in Calls : ops[j].pc # "BEGIN"
        /\ \E i \in Calls : Executing = {i} /\ InsideTransaction(i)

(***************************************************************************)
(* C29: construction of the fee policy either fails or yields a policy     *)
(* whose service-fee rate and exchange rates (EUR, USD) are positive       *)
(* numbers taken from the configuration: whenever a required value is      *)
(* absent or is not a positive number construction throws, whatever other  *)
(* environment variables are already set.                                  *)
(***************************************************************************)
\* what the configuration gives for a key: the caller's value, or else the file's
Configured(key) ==
    IF env.process[key] # absent THEN env.process[key] ELSE env.file[key]

Positive(x) == Len(x) = 2 /\ Greater(x, Zero)

C29_ConstructionValidates ==
    eaf # <<>> =>
        /\ ~eaf[1].threw =>
              /\ Positive(eaf[1].serviceFee)
              /\ Positive(eaf[1].exchangeRates.EUR)
              /\ Positive(eaf[1].exchangeRates.USD)
              /\ eaf[1].serviceFee = Configured("SERVICE_FEE")
              /\ eaf[1].exchangeRates.EUR = Configured("EXCHANGE_EUR")
              /\ eaf[1].exchangeRates.USD = Configured("EXCHANGE_USD")
        /\ (\E key \in EnvKeys : ~Positive(Configured(key))) => eaf[1].threw

(***************************************************************************)
(* C30: when a storage step fails after BEGIN TRANSACTION, the rollback of *)
(* the open transaction has completed before the error is surfaced to the  *)
(* caller (and so before the queue, which waits for the promise, lets the  *)
(* next operation reach storage): in the step in which a call that is at   *)
(* its COMMIT is rejected, no ROLLBACK of that call is left outstanding.   *)
(***************************************************************************)
C30_FailedCommitStep ==
    \A i \in Calls :
        ops[i].pc = "COMMIT" /\ ops'[i].promise = "rejected" => ops'[i].pc = "done"

C30_RollbackBeforeErrorSurfaces == [][C30_FailedCommitStep]_vars

(***************************************************************************)
(* toExchangedAmount in floating point.  A JavaScript number is a binary   *)
(* floating-point number and `/` and `*` give the exact quotient and       *)
(* product rounded to the nearest one, ties to even.  The significand has  *)
(* MantissaBits bits here; the exponent range is left unbounded.           *)
(***************************************************************************)
MantissaBits == 8

\* the power of two u with 2^(MantissaBits - 1) <= x / u < 2^MantissaBits, for x > 0
RECURSIVE Ulp(_, _)
Ulp(x, u) ==
    IF AtLeast(x, Times(u, Num(2 ^ MantissaBits, 1))) THEN Ulp(x, Times(u, Num(2, 1)))
    ELSE IF Greater(Times(u, Num(2 ^ (MantissaBits - 1), 1)), x) THEN Ulp(x, Over(u, Num(2, 1)))
    ELSE u

\* the integer nearest to x >= 0, the even one of two that are equally near
NearestEven(x) ==
    LET q == x[1] \div x[2]
        r == x[1] % x[2]
    IN IF 2 * r > x[2] \/ (2 * r = x[2] /\ q % 2 = 1) THEN q + 1 ELSE q

\* the floating-point number nearest to x
Double(x) ==
    IF x = Zero THEN Zero
    ELSE LET a == Num(Abs(x[1]), x[2])
             u == Ulp(a, Num(1, 1))
             m == Times(Num(NearestEven(Over(a, u)), 1), u)
         IN IF x[1] < 0 THEN Minus(Zero, m) ELSE m

\* this.exchangeRates[currency]: parseFloat of the configured text
exchangeRate(currency) == Double(exchangeRates[currency])

\* toExchangedAmount with the division left out on the way through PLN
toExchangedAmountDouble_NoDivision(amount, from, to) ==
    IF from = to THEN amount
    ELSE IF to = "PLN" THEN Double(Over(amount, exchangeRate(from)))
    ELSE IF from = "PLN" THEN Double(Times(amount, exchangeRate(to)))
    ELSE Double(Times(amount, exchangeRate(to)))

\* toExchangedAmount with amount * rate where the code has amount / rate
toExchangedAmountDouble_Multiplies(amount, from, to) ==
    IF from = to THEN amount
    ELSE IF to = "PLN" THEN Double(Times(amount, exchangeRate(from)))
    ELSE IF from = "PLN" THEN Double(Times(amount, exchangeRate(to)))
    ELSE Double(Times(Double(Over(amount, exchangeRate(from))), exchangeRate(to)))

\* toExchangedAmount(amount, from, to): ExchangeAndFees.ts 78-94, each operation rounded
toExchangedAmountDouble(amount, from, to) ==
    IF from = to THEN amount
    ELSE IF to = "PLN" THEN Double(Over(amount, exchangeRate(from)))
    ELSE IF from = "PLN" THEN Double(Times(amount, exchangeRate(to)))
    ELSE Double(Times(Double(Over(amount, exchangeRate(from))), exchangeRate(to)))

(***************************************************************************)
(* The conversion at work: an amount is converted from one currency to     *)
(* another, and the result is converted back.                              *)
(***************************************************************************)
\* the amounts that are converted: whole ones, and fractions that are no binary fraction
ConvertAmounts ==
    {Double(x) : x \in {Num(1, 1), Num(3, 1), Num(7, 1), Num(11, 1), Num(15, 1), Num(19, 1),
                        Num(21, 1), Num(27, 1), Num(100, 1), Num(1000, 1), Num(1, 10),
                        Num(1, 3)}}

ConvertInit ==
    /\ db = InitWorld.db
    /\ totalCollectedFeesPLN = InitWorld.totalCollectedFeesPLN
    /\ queue = InitWorld.queue
    /\ ops = <<>>
    /\ reads = <<>>
    /\ env = DotEnv
    /\ eaf = <<ExchangeAndFees(DotEnv)>>
    /\ calc \in {<<c>> : c \in [amount : ConvertAmounts, from : Currencies, to : Currencies,
                                there : {<<>>}, back : {<<>>}]}

\* eaf.toExchangedAmount(amount, from, to)
Convert ==
    /\ calc[1].there = <<>>
    /\ calc' = <<[calc[1] EXCEPT
                    !.there = <<toExchangedAmountDouble(calc[1].amount, calc[1].from,
                                                        calc[1].to)>>]>>
    /\ UNCHANGED <<db, totalCollectedFeesPLN, queue, ops, reads, env, eaf>>

\* eaf.toExchangedAmount(result, to, from)
ConvertBack ==
    /\ calc[1].there # <<>>
    /\ calc[1].back = <<>>
    /\ calc' = <<[calc[1] EXCEPT
                    !.back = <<toExchangedAmountDouble(calc[1].there[1], calc[1].to,
                                                       calc[1].from)>>]>>
    /\ UNCHANGED <<db, totalCollectedFeesPLN, queue, ops, reads, env, eaf>>

ConvertNext ==
    \/ Convert
    \/ ConvertBack

ConvertSpec == ConvertInit /\ [][ConvertNext]_vars

(***************************************************************************)
(* C31: toExchangedAmount(amount, from, to) returns amount when from = to, *)
(* amount divided by the rate of from when to is PLN, amount multiplied by *)
(* the rate of to when from is PLN, and otherwise the value got by         *)
(* converting from to PLN and then PLN to to: for every pair of distinct   *)
(* currencies the result is convert(convert(amount, from, PLN), PLN, to).  *)
(***************************************************************************)
C31_ConversionByCase ==
    calc[1].there # <<>> =>
        LET amount == calc[1].amount
            from == calc[1].from
            to == calc[1].to
            result == calc[1].there[1]
        IN /\ from = to => result = amount
           /\ from # to /\ to = "PLN" => result = Double(Over(amount, exchangeRate(from)))
           /\ from # to /\ from = "PLN" => result = Double(Times(amount, exchangeRate(to)))
           /\ from # to =>
                 result = toExchangedAmountDouble(
                              toExchangedAmountDouble(amount, from, "PLN"), "PLN", to)

\* 19 EUR have been converted to USD, through PLN
C31_Witness ==
    /\ calc[1].amount = Num(19, 1)
    /\ calc[1].from = "EUR"
    /\ calc[1].to = "USD"
    /\ calc[1].there # <<>>
    /\ calc[1].there[1] # calc[1].amount

(***************************************************************************)
(* C32: for every supported currency X and every amount A, converting A    *)
(* from X to PLN and the result back to X gives A again, up to the         *)
(* tolerance of floating point: the two roundings move the value by no     *)
(* more than A * 2^(2 - MantissaBits).                                     *)
(***************************************************************************)
Tolerance == Num(4, 2 ^ MantissaBits)

Within(x, y, tolerance) ==
    LET difference == Minus(x, y)
    IN AtLeast(Times(tolerance, y), Num(Abs(difference[1]), difference[2]))

C32_RoundTrip ==
    (calc[1].back # <<>> /\ calc[1].to = "PLN") =>
        Within(calc[1].back[1], calc[1].amount, Tolerance)

\* an amount of USD has gone to PLN and back, and the roundings have moved it
C32_Witness ==
    /\ calc[1].from = "USD"
    /\ calc[1].to = "PLN"
    /\ calc[1].back # <<>>
    /\ calc[1].back[1] # calc[1].amount

(***************************************************************************)
(* C33: after any sequence of successful deposits, withdrawals, transfers  *)
(* and exchanges with accepted inputs, every stored balance and every      *)
(* recorded amount and fee_paid is a whole number of minor units.          *)
(***************************************************************************)
IsInteger(x) == x[2] = 1

AllSucceeded == \A i \in Calls : ops[i].pc = "done" /\ ops[i].promise = "resolved"

C33_WholeMinorUnits ==
    AllSucceeded =>
        /\ \A a \in db.accounts : IsInteger(a.balance)
        /\ \A k \in DOMAIN db.transactions :
              /\ IsInteger(db.transactions[k].amount)
              /\ IsInteger(db.transactions[k].fee_paid)

(***************************************************************************)
(* C34: whenever no operation is in flight, the balance of every existing  *)
(* account is the net effect of the log records that reference it: plus    *)
(* amount - fee_paid for each deposit into it, minus amount + fee_paid for *)
(* each withdrawal, transfer or exchange issued from it, plus amount for   *)
(* each transfer it received, plus the converted amount for each exchange  *)
(* into it.                                                                *)
(***************************************************************************)
EffectOn(accountID, record) ==
    LET issued ==
            IF record.issuer_account_id # accountID THEN Zero
            ELSE IF record.transaction_type = "deposit"
            THEN Minus(record.amount, record.fee_paid)
            ELSE Minus(Zero, Plus(record.amount, record.fee_paid))
        received ==
            IF record.recipient_account_id # accountID THEN Zero
            ELSE IF record.transaction_type = "transfer" THEN record.amount
            ELSE IF record.transaction_type = "exchange" THEN record.exchanged_to
            ELSE Zero
    IN Plus(issued, received)

RECURSIVE NetEffect(_, _)
NetEffect(accountID, transactions) ==
    IF transactions = <<>> THEN Zero
    ELSE Plus(EffectOn(accountID, Head(transactions)),
              NetEffect(accountID, Tail(transactions)))

C34_BalanceIsNetOfLog ==
    Quiescent => \A a \in db.accounts : a.balance = NetEffect(a.id, db.transactions)

(***************************************************************************)
(* C35: whenever no operation is in flight, the totalFees that             *)
(* getUserProfits reports (no type filter, no dates), summed over every    *)
(* user id that has appeared as the source of a record, is the fee pool    *)
(* totalCollectedFeesPLN; this is so after users have been deleted too.    *)
(***************************************************************************)
Sources == {db.transactions[k].user_id : k \in DOMAIN db.transactions}

TotalFeesOf(userID) ==
    getUserProfits(db, [userID |-> userID, transactionTypes |-> omitted,
                        startDate |-> omitted, endDate |-> omitted]).value[1].totalFees

RECURSIVE SumOver(_, _)
SumOver(Of(_), set) ==
    IF set = {} THEN Zero
    ELSE LET x == CHOOSE y \in set : TRUE
         IN Plus(Of(x), SumOver(Of, set \ {x}))

C35_ReportedFeesAddUpToThePool ==
    Quiescent => SumOver(TotalFeesOf, Sources) = totalCollectedFeesPLN

(***************************************************************************)
(* C36: an operation issues ROLLBACK only if its own BEGIN TRANSACTION has *)
(* succeeded and its COMMIT has not, and never when no transaction it has  *)
(* opened is open: in the step in which a call issues ROLLBACK the call is *)
(* past its BEGIN and a transaction is open on the connection.  This is so *)
(* for deposit, withdraw, transfer and exchange alike.                     *)
(***************************************************************************)
PastBegin(i) == ops[i].pc \in {"UPDATE", "UPDATE2", "INSERT", "COMMIT"}

C36_RollbackStep ==
    \A i \in Calls :
        (i \in DOMAIN ops' /\ ops[i].pc # "ROLLBACK" /\ ops'[i].pc = "ROLLBACK")
            => PastBegin(i) /\ db.tx # <<>>

C36_RollbackOnlyOfOwnTransaction == [][C36_RollbackStep]_vars

====
